---- MODULE Spec2Model ----
(***************************************************************************)
(* Pacer for GitHub Copilot (src/src/extension.ts): the pacing engine      *)
(* calculatePacing / renderBlock and the display step of updatePacing.     *)
(*                                                                         *)
(* Numbers.  JavaScript numbers are modelled as exact rationals            *)
(* [num, den] in lowest terms with den > 0, so that record equality is     *)
(* numeric equality.  Every division the engine performs inside the        *)
(* modelled domain (monthlyLimit > 0, daysInMonth >= 1) has a non-zero     *)
(* divisor; IEEE-754 rounding of the quotients is not modelled.            *)
(*                                                                         *)
(* Strings.  A JavaScript string is modelled as the sequence of its        *)
(* UTF-16 code units, so Len is String.prototype.length.  The glyph        *)
(* literals are taken as they are stored in src/src/extension.ts.          *)
(***************************************************************************)
EXTENDS Integers, Sequences, FiniteSets, TLC

VARIABLES
    now,            \* what `new Date()` yields: [daysInMonth, currentDay]
    usedRequests,   \* argument 1 of calculatePacing (updatePacing's usedRequests)
    monthlyLimit,   \* argument 2 of calculatePacing (settings.monthlyLimit)
    result,         \* the PacingResult of the last call, or NoResult
    statusBarItem,  \* the fields of the status bar item updatePacing writes
    width,          \* renderBlock harness: argument width
    fillRatio,      \* renderBlock harness: argument fillRatio
    block,          \* renderBlock harness: the last rendered block, or NoBlock
    secretToken,    \* SecretStorage: the value under "copilot-pacer.githubToken"
    config,         \* the "copilot-pacer" configuration: [monthlyLimit, username]
    cycles,         \* the calls of updatePacing: position and locals of each
    command         \* statusBarItem.command

cycleVars == <<secretToken, config, cycles, command>>

vars == <<now, usedRequests, monthlyLimit, result, statusBarItem,
          width, fillRatio, block, secretToken, config, cycles, command>>

----------------------------------------------------------------------------
(* Bounds of the model *)

MaxDays == 31
MaxLimit == 8
MaxUsed == 10
MaxNegUsed == 2
MaxWidth == 12
MaxNum == 9
MaxDen == 6
MaxCycles == 2

(* Program constants *)

DEFAULT_MONTHLY_LIMIT == 300
OUTSIDE_WIDTH == 12
LENS_INNER_WIDTH == 5
MinMonthDays == 28
MaxMonthDays == 31

----------------------------------------------------------------------------
(* JavaScript numbers as exact rationals *)

Abs(n) == IF n < 0 THEN -n ELSE n

RECURSIVE GCD(_, _)
GCD(a, b) == IF b = 0 THEN a ELSE GCD(b, a % b)

Rat(n, d) ==
    LET g == GCD(Abs(n), d)
    IN  [num |-> n \div g, den |-> d \div g]

Num(n) == [num |-> n, den |-> 1]

Sub(a, b) == Rat(a.num * b.den - b.num * a.den, a.den * b.den)

Mul(a, b) == Rat(a.num * b.num, a.den * b.den)

Div(a, b) ==
    IF b.num > 0 THEN Rat(a.num * b.den, a.den * b.num)
                 ELSE Rat(-(a.num * b.den), a.den * (-b.num))

Less(a, b) == a.num * b.den < b.num * a.den

Leq(a, b) == a.num * b.den <= b.num * a.den

MathMax(a, b) == IF Less(a, b) THEN b ELSE a

MathMin(a, b) == IF Less(b, a) THEN b ELSE a

\* Math.round: the nearest integer, a tie going up.
MathRound(a) == (2 * a.num + a.den) \div (2 * a.den)

MathFloor(a) == a.num \div a.den

----------------------------------------------------------------------------
(* Strings *)

\* The glyph literals of lines 237-239, as stored in the source file.
PAST_FILL == <<226, 8211, 176>>
PAST_EMPTY == <<226, 8211, 177>>
LENS_FILL == <<226, 8211, 174>>
LENS_EMPTY == <<226, 8211, 175>>
LENS_DELIM == <<226, 8221, 402>>

RECURSIVE repeat(_, _)
repeat(s, count) == IF count <= 0 THEN <<>> ELSE s \o repeat(s, count - 1)

----------------------------------------------------------------------------
(* renderBlock *)

\* Mutant of filled: Math.floor in place of Math.round.
filled_floor(width_, fillRatio_) ==
    MathFloor(MathMax(Num(0), MathMin(Num(width_), Mul(fillRatio_, Num(width_)))))

filled(width_, fillRatio_) ==
    MathRound(MathMax(Num(0), MathMin(Num(width_), Mul(fillRatio_, Num(width_)))))

renderBlock(width_, fillRatio_, fillChar, emptyChar) ==
    IF width_ <= 0 THEN <<>>
    ELSE repeat(fillChar, filled(width_, fillRatio_))
         \o repeat(emptyChar, width_ - filled(width_, fillRatio_))

----------------------------------------------------------------------------
(* calculatePacing: the locals, as functions of the values they depend on *)

\* Mutant of pastDays: today counted among the past days.
pastDays_currentDay(currentDay) == currentDay

pastDays(currentDay) == currentDay - 1

totalOutsideDays(daysInMonth) == daysInMonth - 1

pastChars(daysInMonth, currentDay) ==
    IF totalOutsideDays(daysInMonth) = 0 THEN 0
    ELSE MathRound(Mul(Div(Num(pastDays(currentDay)),
                           Num(totalOutsideDays(daysInMonth))),
                       Num(OUTSIDE_WIDTH)))

\* Mutant of futureChars: the future width rounded on its own instead of taken
\* as the complement of pastChars.
futureChars_roundedAlone(daysInMonth, currentDay) ==
    IF totalOutsideDays(daysInMonth) = 0 THEN OUTSIDE_WIDTH
    ELSE MathRound(Mul(Div(Num(daysInMonth - currentDay),
                           Num(totalOutsideDays(daysInMonth))),
                       Num(OUTSIDE_WIDTH)))

futureChars(daysInMonth, currentDay) ==
    OUTSIDE_WIDTH - pastChars(daysInMonth, currentDay)

dailyBudget(limit, daysInMonth) == Div(Num(limit), Num(daysInMonth))

startOfTodayQuota(limit, daysInMonth, currentDay) ==
    Mul(Num(pastDays(currentDay)), dailyBudget(limit, daysInMonth))

endOfTodayQuota(limit, daysInMonth, currentDay) ==
    Mul(Num(currentDay), dailyBudget(limit, daysInMonth))

futureQuota(limit, daysInMonth, currentDay) ==
    Sub(Num(limit), endOfTodayQuota(limit, daysInMonth, currentDay))

\* Mutant of zone: the on-track test with < in place of <=.
zone_endExclusive(used, limit, daysInMonth, currentDay) ==
    IF Less(Num(used), startOfTodayQuota(limit, daysInMonth, currentDay)) THEN 1
    ELSE IF Less(Num(used), endOfTodayQuota(limit, daysInMonth, currentDay)) THEN 2
    ELSE 3

\* Mutant of zone: the ahead-of-schedule test with <= in place of <.
zone_startInclusive(used, limit, daysInMonth, currentDay) ==
    IF Leq(Num(used), startOfTodayQuota(limit, daysInMonth, currentDay)) THEN 1
    ELSE IF Leq(Num(used), endOfTodayQuota(limit, daysInMonth, currentDay)) THEN 2
    ELSE 3

\* The branch taken by the if / else-if / else of lines 221, 224 and 228.
zone(used, limit, daysInMonth, currentDay) ==
    IF Less(Num(used), startOfTodayQuota(limit, daysInMonth, currentDay)) THEN 1
    ELSE IF Leq(Num(used), endOfTodayQuota(limit, daysInMonth, currentDay)) THEN 2
    ELSE 3

\* Mutant of futureRatio: the overspend divided by monthlyLimit instead of
\* futureQuota.
futureRatio_overLimit(used, limit, daysInMonth, currentDay) ==
    CASE zone(used, limit, daysInMonth, currentDay) = 1 -> Num(0)
      [] zone(used, limit, daysInMonth, currentDay) = 2 -> Num(0)
      [] zone(used, limit, daysInMonth, currentDay) = 3 ->
             Div(Sub(Num(used), endOfTodayQuota(limit, daysInMonth, currentDay)),
                 Num(limit))

\* Mutant of pastRatio: the on-track branch leaves pastRatio at its initial 0.
pastRatio_unsetOnTrack(used, limit, daysInMonth, currentDay) ==
    LET start == startOfTodayQuota(limit, daysInMonth, currentDay)
    IN  CASE zone(used, limit, daysInMonth, currentDay) = 1 ->
                 IF start = Num(0) THEN Num(0) ELSE Div(Num(used), start)
          [] zone(used, limit, daysInMonth, currentDay) = 2 -> Num(0)
          [] zone(used, limit, daysInMonth, currentDay) = 3 -> Num(1)

pastRatio(used, limit, daysInMonth, currentDay) ==
    LET start == startOfTodayQuota(limit, daysInMonth, currentDay)
    IN  CASE zone(used, limit, daysInMonth, currentDay) = 1 ->
                 IF start = Num(0) THEN Num(0) ELSE Div(Num(used), start)
          [] zone(used, limit, daysInMonth, currentDay) = 2 -> Num(1)
          [] zone(used, limit, daysInMonth, currentDay) = 3 -> Num(1)

\* Mutant of lensRatio: the overspend branch leaves lensRatio at its initial 0.
lensRatio_unsetOverspend(used, limit, daysInMonth, currentDay) ==
    CASE zone(used, limit, daysInMonth, currentDay) = 1 -> Num(0)
      [] zone(used, limit, daysInMonth, currentDay) = 2 ->
             Div(Sub(Num(used), startOfTodayQuota(limit, daysInMonth, currentDay)),
                 dailyBudget(limit, daysInMonth))
      [] zone(used, limit, daysInMonth, currentDay) = 3 -> Num(0)

lensRatio(used, limit, daysInMonth, currentDay) ==
    CASE zone(used, limit, daysInMonth, currentDay) = 1 -> Num(0)
      [] zone(used, limit, daysInMonth, currentDay) = 2 ->
             Div(Sub(Num(used), startOfTodayQuota(limit, daysInMonth, currentDay)),
                 dailyBudget(limit, daysInMonth))
      [] zone(used, limit, daysInMonth, currentDay) = 3 -> Num(1)

futureRatio(used, limit, daysInMonth, currentDay) ==
    LET fq == futureQuota(limit, daysInMonth, currentDay)
    IN  CASE zone(used, limit, daysInMonth, currentDay) = 1 -> Num(0)
          [] zone(used, limit, daysInMonth, currentDay) = 2 -> Num(0)
          [] zone(used, limit, daysInMonth, currentDay) = 3 ->
                 IF fq = Num(0) THEN Num(1)
                 ELSE Div(Sub(Num(used), endOfTodayQuota(limit, daysInMonth, currentDay)),
                          fq)

pastStr(used, limit, daysInMonth, currentDay) ==
    renderBlock(pastChars(daysInMonth, currentDay),
                pastRatio(used, limit, daysInMonth, currentDay),
                PAST_FILL, PAST_EMPTY)

lensStr(used, limit, daysInMonth, currentDay) ==
    LENS_DELIM
    \o renderBlock(LENS_INNER_WIDTH,
                   lensRatio(used, limit, daysInMonth, currentDay),
                   LENS_FILL, LENS_EMPTY)
    \o LENS_DELIM

futureStr(used, limit, daysInMonth, currentDay) ==
    renderBlock(futureChars(daysInMonth, currentDay),
                futureRatio(used, limit, daysInMonth, currentDay),
                PAST_FILL, PAST_EMPTY)

\* Mutant of buffer: a debt reported as 0.
buffer_floored(used, limit, daysInMonth, currentDay) ==
    MathMax(Num(0), Sub(endOfTodayQuota(limit, daysInMonth, currentDay), Num(used)))

buffer(used, limit, daysInMonth, currentDay) ==
    Sub(endOfTodayQuota(limit, daysInMonth, currentDay), Num(used))

\* Lines 201-246: the body of calculatePacing once the date has been read.
pacing(used, limit, daysInMonth, currentDay) ==
    [progressBar  |-> pastStr(used, limit, daysInMonth, currentDay)
                      \o lensStr(used, limit, daysInMonth, currentDay)
                      \o futureStr(used, limit, daysInMonth, currentDay),
     buffer       |-> buffer(used, limit, daysInMonth, currentDay),
     usedRequests |-> used,
     monthlyLimit |-> limit]

\* Lines 196-199: the calendar is read from the clock inside the function.
calculatePacing(used, limit) ==
    pacing(used, limit, now.daysInMonth, now.currentDay)

----------------------------------------------------------------------------
(* updatePacing, step 3 (lines 311-327): calculate and show *)

NoResult == [called |-> FALSE]

NoBlock == [rendered |-> FALSE]

Tooltip(r) ==
    IF Leq(Num(0), r.buffer)
    THEN [kind |-> "On track", amount |-> MathFloor(r.buffer)]
    ELSE [kind |-> "Over budget", amount |-> Abs(MathFloor(r.buffer))]

\* Mutant of Color: buffer > 0 in place of buffer >= 0.
Color_strict(r) ==
    IF Less(Num(0), r.buffer) THEN "undefined" ELSE "statusBarItem.errorForeground"

Color(r) ==
    IF Leq(Num(0), r.buffer) THEN "undefined" ELSE "statusBarItem.errorForeground"

Show(r) == [text |-> r.progressBar, tooltip |-> Tooltip(r), color |-> Color(r)]

InitialStatusBar ==
    [text |-> <<>>, tooltip |-> [kind |-> "none", amount |-> 0], color |-> "undefined"]

CalculateAndShow ==
    /\ result' = calculatePacing(usedRequests, monthlyLimit)
    /\ statusBarItem' = Show(result')
    /\ UNCHANGED <<now, usedRequests, monthlyLimit, width, fillRatio, block>>
    /\ UNCHANGED cycleVars

----------------------------------------------------------------------------
(* The state updatePacing works on *)

CycleIds == 1 .. MaxCycles

\* What secretStorage.get resolves to when nothing is stored.
NoToken == "undefined"

Tokens == {"t1", "t2"}

NoCommand == "undefined"

CMD_SET_TOKEN == "copilot-pacer.setToken"

CMD_REFRESH == "copilot-pacer.refresh"

\* data.login of GET /user.
LOGIN == "octo"

\* A message text of the status bar, kept as one unit.
Msg(s) == <<s>>

\* A value of the setting monthlyLimit: a number, or something that is not a
\* finite number.
NumberValue(n) == [kind |-> "number", value |-> n]

NotANumber(k) == [kind |-> k, value |-> 0]

ConfigLimits ==
    {NotANumber(k) : k \in {"undefined", "NaN", "Infinity", "string"}}
    \cup {NumberValue(n) : n \in {-1, 0, 8, DEFAULT_MONTHLY_LIMIT}}

ConfigUsernames == {"", " ", "stale", LOGIN}

IdleCycle ==
    [pc           |-> "idle",
     token        |-> NoToken,
     limitRead    |-> NotANumber("undefined"),
     monthlyLimit |-> DEFAULT_MONTHLY_LIMIT,
     usernameRead |-> "",
     username     |-> "",
     usageFetches |-> 0,
     reresolves   |-> 0,
     last         |-> "none",
     outcome      |-> "none",
     wrote        |-> InitialStatusBar]

\* No call of updatePacing is modelled: the engine and renderBlock alone.
NoCycles ==
    /\ secretToken = NoToken
    /\ config = [monthlyLimit |-> NumberValue(DEFAULT_MONTHLY_LIMIT), username |-> ""]
    /\ cycles = [i \in CycleIds |-> IdleCycle]
    /\ command = NoCommand

----------------------------------------------------------------------------
(* Spec: the engine applied to inputs drawn from bounded sets.  The        *)
(* calendar ranges over every month length from 1 to MaxDays, which        *)
(* covers the lengths Date can report and the shorter ones the guards of   *)
(* lines 209, 223 and 234 are written for.                                 *)

UsedSet == (-MaxNegUsed .. MaxUsed) \cup {140, 150, 160, 300, 310}

LimitSet == (1 .. MaxLimit) \cup {DEFAULT_MONTHLY_LIMIT}

Calendars ==
    {cal \in [daysInMonth : 1 .. MaxDays, currentDay : 1 .. MaxDays] :
        cal.currentDay <= cal.daysInMonth}

IdleCalendar == [daysInMonth |-> 30, currentDay |-> 15]

Init ==
    /\ now \in Calendars
    /\ usedRequests \in UsedSet
    /\ monthlyLimit \in LimitSet
    /\ result = NoResult
    /\ statusBarItem = InitialStatusBar
    /\ width = 0
    /\ fillRatio = Num(0)
    /\ block = NoBlock
    /\ NoCycles

Next == CalculateAndShow

Spec == Init /\ [][Next]_vars

----------------------------------------------------------------------------
(* SpecClock: calls of calculatePacing while the wall clock advances.      *)
(* Date reports months of MinMonthDays to MaxMonthDays days.               *)

ClockCalendars ==
    {cal \in [daysInMonth : MinMonthDays .. MaxMonthDays, currentDay : 1 .. MaxMonthDays] :
        cal.currentDay <= cal.daysInMonth}

ClockUsedSet == {0, 140, 160}

InitClock ==
    /\ now \in ClockCalendars
    /\ usedRequests \in ClockUsedSet
    /\ monthlyLimit = DEFAULT_MONTHLY_LIMIT
    /\ result = NoResult
    /\ statusBarItem = InitialStatusBar
    /\ width = 0
    /\ fillRatio = Num(0)
    /\ block = NoBlock
    /\ NoCycles

\* Midnight passes: the next day of the month, or the first day of the next month.
Tick ==
    /\ \/ /\ now.currentDay < now.daysInMonth
          /\ now' = [now EXCEPT !.currentDay = @ + 1]
       \/ /\ now.currentDay = now.daysInMonth
          /\ \E d \in MinMonthDays .. MaxMonthDays :
                now' = [daysInMonth |-> d, currentDay |-> 1]
    /\ UNCHANGED <<usedRequests, monthlyLimit, result, statusBarItem,
                   width, fillRatio, block>>
    /\ UNCHANGED cycleVars

NextClock == CalculateAndShow \/ Tick

SpecClock == InitClock /\ [][NextClock]_vars

----------------------------------------------------------------------------
(* SpecRender: renderBlock applied to widths, ratios and characters drawn  *)
(* from bounded sets.                                                      *)

RatioSet == {Rat(n, d) : n \in -MaxNum .. MaxNum, d \in 1 .. MaxDen}

\* The two pairs calculatePacing passes, and a pair of one-unit characters.
CharPairs ==
    {<<PAST_FILL, PAST_EMPTY>>, <<LENS_FILL, LENS_EMPTY>>, <<(<<9648>>), (<<9649>>)>>}

InitRender ==
    /\ width \in 0 .. MaxWidth
    /\ fillRatio \in RatioSet
    /\ block = NoBlock
    /\ now = IdleCalendar
    /\ usedRequests = 0
    /\ monthlyLimit = DEFAULT_MONTHLY_LIMIT
    /\ result = NoResult
    /\ statusBarItem = InitialStatusBar
    /\ NoCycles

Render ==
    /\ \E pair \in CharPairs :
          block' = [rendered  |-> TRUE,
                    fillChar  |-> pair[1],
                    emptyChar |-> pair[2],
                    text      |-> renderBlock(width, fillRatio, pair[1], pair[2])]
    /\ UNCHANGED <<now, usedRequests, monthlyLimit, result, statusBarItem,
                   width, fillRatio>>
    /\ UNCHANGED cycleVars

NextRender == Render

SpecRender == InitRender /\ [][NextRender]_vars

----------------------------------------------------------------------------
(* SpecCycle: the refresh cycle.  A call of updatePacing runs from one      *)
(* await to the next in one step; calls started by the timer and by the    *)
(* commands interleave at their awaits.  Every request to the GitHub API   *)
(* may answer 200, 401, 404 or fail otherwise.  The calendar stays fixed.  *)

CycleUsedSet == {140, 160}

\* Line 64: config.get("monthlyLimit") ?? DEFAULT_MONTHLY_LIMIT.
coalesceLimit(v) ==
    IF v.kind = "undefined" THEN NumberValue(DEFAULT_MONTHLY_LIMIT) ELSE v

\* Mutant of isValidLimit: < 0 in place of <= 0.
isValidLimit_zeroAllowed(v) == v.kind = "number" /\ ~(v.value < 0)

\* Line 65, negated: Number.isFinite(monthlyLimit) && monthlyLimit > 0.
isValidLimit(v) == v.kind = "number" /\ ~(v.value <= 0)

\* Lines 64-67: the limit resolveSettings returns.
resolvedLimit(v) ==
    IF isValidLimit(coalesceLimit(v)) THEN coalesceLimit(v).value
    ELSE DEFAULT_MONTHLY_LIMIT

\* Mutant of usageCatch: a 404 is healed whichever request it answers.
usageCatch_always(c, status) ==
    IF status = "404" THEN "heal" ELSE "rethrow"

\* Lines 294-309: only the first usage request is inside the try whose catch
\* heals a NotFoundError; anything else reaches the outer catch.
usageCatch(c, status) ==
    IF status = "404" /\ c.usageFetches = 1 THEN "heal" ELSE "rethrow"

\* Mutant of outerCatch: a TokenExpiredError handled like any other error.
outerCatch_noExpiry(status) == "error"

\* Lines 328-339: the outer catch of updatePacing.
outerCatch(status) == IF status = "401" THEN "expired" ELSE "error"

\* showPromptForToken (lines 253-258).
showPromptForToken(text, tooltip) ==
    /\ statusBarItem' = [text    |-> Msg(text),
                         tooltip |-> [kind |-> tooltip, amount |-> 0],
                         color   |-> "undefined"]
    /\ command' = CMD_SET_TOKEN

SetCycle(i, c) == cycles' = [cycles EXCEPT ![i] = c]

Finished(c, outcome) ==
    [c EXCEPT !.pc = "done", !.outcome = outcome, !.wrote = statusBarItem']

\* Lines 336-338: any error but TokenExpiredError.
ShowError(i, c) ==
    /\ statusBarItem' = [statusBarItem EXCEPT !.text = Msg("$(error) Pacer: Error")]
    /\ command' = CMD_REFRESH
    /\ SetCycle(i, Finished(c, "error"))
    /\ UNCHANGED <<now, usedRequests, monthlyLimit, result, width, fillRatio, block,
                   secretToken, config>>

\* Line 330 is reached: the cycle now awaits secretStorage.delete.
ToDelete(i, c) ==
    /\ SetCycle(i, [c EXCEPT !.pc = "deleteToken"])
    /\ UNCHANGED <<now, usedRequests, monthlyLimit, result, statusBarItem,
                   width, fillRatio, block, secretToken, config, command>>

\* An error thrown to the outer catch with the status that caused it.
Thrown(i, c, status) ==
    IF outerCatch(status) = "expired"
    THEN ToDelete(i, [c EXCEPT !.last = status])
    ELSE ShowError(i, [c EXCEPT !.last = status])

\* Line 274 on: updatePacing is called and runs to its first await.
Start(i) ==
    /\ cycles[i].pc = "idle"
    /\ \A j \in CycleIds : j < i => cycles[j].pc # "idle"
    /\ statusBarItem' = [statusBarItem EXCEPT !.text = Msg("$(sync~spin) Pacer...")]
    /\ SetCycle(i, [IdleCycle EXCEPT !.pc = "getToken"])
    /\ UNCHANGED <<now, usedRequests, monthlyLimit, result, width, fillRatio, block,
                   config, command>>

\* setInterval(updatePacing, 10 minutes) (line 124).
TimerTick == \E i \in CycleIds : Start(i) /\ UNCHANGED secretToken

\* The command copilot-pacer.refresh (lines 112-116).
RefreshCommand == \E i \in CycleIds : Start(i) /\ UNCHANGED secretToken

\* The command copilot-pacer.setToken (lines 97-109), from the moment
\* secretStorage.store has resolved.
SetTokenCommand ==
    \E t \in Tokens, i \in CycleIds :
        /\ secretToken' = t
        /\ Start(i)

\* String.prototype.trim on the usernames of ConfigUsernames (line 71).
trim(name) == IF name = " " THEN "" ELSE name

\* Lines 71-77 and 281-295: the username is read from the configuration
\* object obtained at line 61, which holds the values of that moment; with a
\* username, resolveSettings returns, the command becomes refresh and the
\* usage is requested.
ReadUsername(i, c) ==
    IF trim(c.usernameRead) = ""
    THEN /\ SetCycle(i, [c EXCEPT !.pc = "fetchUsername"])
         /\ UNCHANGED command
    ELSE /\ SetCycle(i, [c EXCEPT !.username = trim(c.usernameRead),
                                  !.pc = "fetchUsage", !.usageFetches = 1])
         /\ command' = CMD_REFRESH

\* secretStorage.get has resolved (lines 58-68, 281-287).
GetTokenDone(i) ==
    LET c == cycles[i]
    IN  /\ c.pc = "getToken"
        /\ UNCHANGED <<now, usedRequests, monthlyLimit, result, width, fillRatio,
                       block, secretToken, config>>
        /\ IF secretToken = NoToken
           THEN /\ showPromptForToken("$(key) Pacer: No token",
                       "Click to set your GitHub Personal Access Token.")
                /\ SetCycle(i, Finished(c, "noToken"))
           ELSE LET c1 == [c EXCEPT !.token = secretToken,
                                    !.limitRead = config.monthlyLimit,
                                    !.usernameRead = config.username,
                                    !.monthlyLimit = resolvedLimit(config.monthlyLimit)]
                IN  /\ UNCHANGED statusBarItem
                    /\ IF isValidLimit(coalesceLimit(config.monthlyLimit))
                       THEN ReadUsername(i, c1)
                       ELSE /\ SetCycle(i, [c1 EXCEPT !.pc = "updateLimit"])
                            /\ UNCHANGED command

\* config.update("monthlyLimit", 300) has resolved (line 67).
UpdateLimitDone(i) ==
    LET c == cycles[i]
    IN  /\ c.pc = "updateLimit"
        /\ config' = [config EXCEPT !.monthlyLimit = NumberValue(DEFAULT_MONTHLY_LIMIT)]
        /\ ReadUsername(i, c)
        /\ UNCHANGED <<now, usedRequests, monthlyLimit, result, statusBarItem,
                       width, fillRatio, block, secretToken>>

\* fetchUsername has settled inside resolveSettings (line 73).
FetchUsernameDone(i) ==
    LET c == cycles[i]
    IN  /\ c.pc = "fetchUsername"
        /\ \E status \in {"200", "401", "404", "error"} :
              IF status = "200"
              THEN /\ SetCycle(i, [c EXCEPT !.username = LOGIN, !.last = status,
                                            !.pc = "updateUsername"])
                   /\ UNCHANGED <<now, usedRequests, monthlyLimit, result,
                                  statusBarItem, width, fillRatio, block,
                                  secretToken, config, command>>
              ELSE Thrown(i, c, status)

\* config.update("username", username) has resolved (line 74); lines 77, 290, 295.
UpdateUsernameDone(i) ==
    LET c == cycles[i]
    IN  /\ c.pc = "updateUsername"
        /\ config' = [config EXCEPT !.username = c.username]
        /\ command' = CMD_REFRESH
        /\ SetCycle(i, [c EXCEPT !.pc = "fetchUsage", !.usageFetches = 1])
        /\ UNCHANGED <<now, usedRequests, monthlyLimit, result, statusBarItem,
                       width, fillRatio, block, secretToken>>

\* Lines 311-327 for the cycle's own usage and limit.
ShowPacing(i, c, used) ==
    /\ usedRequests' = used
    /\ monthlyLimit' = c.monthlyLimit
    /\ result' = calculatePacing(used, c.monthlyLimit)
    /\ statusBarItem' = Show(result')
    /\ SetCycle(i, Finished([c EXCEPT !.last = "200"], "shown"))
    /\ UNCHANGED <<now, width, fillRatio, block, secretToken, config, command>>

\* fetchUsedRequests has settled (line 295, or line 305 for the retry).
FetchUsageDone(i) ==
    LET c == cycles[i]
    IN  /\ c.pc = "fetchUsage"
        /\ \/ \E used \in CycleUsedSet : ShowPacing(i, c, used)
           \/ \E status \in {"401", "404", "error"} :
                 IF usageCatch(c, status) = "heal"
                 THEN /\ SetCycle(i, [c EXCEPT !.last = status, !.pc = "clearUsername"])
                      /\ UNCHANGED <<now, usedRequests, monthlyLimit, result,
                                     statusBarItem, width, fillRatio, block,
                                     secretToken, config, command>>
                 ELSE Thrown(i, c, status)

\* config.update("username", undefined) has resolved (line 300); line 302.
ClearUsernameDone(i) ==
    LET c == cycles[i]
    IN  /\ c.pc = "clearUsername"
        /\ config' = [config EXCEPT !.username = ""]
        /\ SetCycle(i, [c EXCEPT !.pc = "refetchUsername", !.reresolves = @ + 1])
        /\ UNCHANGED <<now, usedRequests, monthlyLimit, result, statusBarItem,
                       width, fillRatio, block, secretToken, command>>

\* fetchUsername has settled inside the catch (line 302).
RefetchUsernameDone(i) ==
    LET c == cycles[i]
    IN  /\ c.pc = "refetchUsername"
        /\ \E status \in {"200", "401", "404", "error"} :
              IF status = "200"
              THEN /\ SetCycle(i, [c EXCEPT !.username = LOGIN, !.last = status,
                                            !.pc = "updateFreshUsername"])
                   /\ UNCHANGED <<now, usedRequests, monthlyLimit, result,
                                  statusBarItem, width, fillRatio, block,
                                  secretToken, config, command>>
              ELSE Thrown(i, c, status)

\* config.update("username", freshUsername) has resolved (line 303); line 305.
UpdateFreshUsernameDone(i) ==
    LET c == cycles[i]
    IN  /\ c.pc = "updateFreshUsername"
        /\ config' = [config EXCEPT !.username = c.username]
        /\ SetCycle(i, [c EXCEPT !.pc = "fetchUsage", !.usageFetches = @ + 1])
        /\ UNCHANGED <<now, usedRequests, monthlyLimit, result, statusBarItem,
                       width, fillRatio, block, secretToken, command>>

\* secretStorage.delete has resolved (line 330); lines 331-334.
DeleteTokenDone(i) ==
    LET c == cycles[i]
    IN  /\ c.pc = "deleteToken"
        /\ secretToken' = NoToken
        /\ showPromptForToken("$(key) Pacer: Token expired",
               "Your GitHub token is invalid or revoked. Click to set a new one.")
        /\ SetCycle(i, Finished(c, "expired"))
        /\ UNCHANGED <<now, usedRequests, monthlyLimit, result, width, fillRatio,
                       block, config>>

\* activate (lines 84-125) has returned: the first call of updatePacing is at
\* its first await and the timer is set.
InitCycle ==
    /\ now = IdleCalendar
    /\ usedRequests = 0
    /\ monthlyLimit = DEFAULT_MONTHLY_LIMIT
    /\ result = NoResult
    /\ statusBarItem = [InitialStatusBar EXCEPT !.text = Msg("$(sync~spin) Pacer...")]
    /\ width = 0
    /\ fillRatio = Num(0)
    /\ block = NoBlock
    /\ secretToken \in {NoToken, "t1"}
    /\ config \in [monthlyLimit : ConfigLimits, username : ConfigUsernames]
    /\ cycles = [i \in CycleIds |->
                    IF i = 1 THEN [IdleCycle EXCEPT !.pc = "getToken"] ELSE IdleCycle]
    /\ command = NoCommand

NextCycle ==
    \/ TimerTick
    \/ RefreshCommand
    \/ SetTokenCommand
    \/ \E i \in CycleIds : GetTokenDone(i)
    \/ \E i \in CycleIds : UpdateLimitDone(i)
    \/ \E i \in CycleIds : FetchUsernameDone(i)
    \/ \E i \in CycleIds : UpdateUsernameDone(i)
    \/ \E i \in CycleIds : FetchUsageDone(i)
    \/ \E i \in CycleIds : ClearUsernameDone(i)
    \/ \E i \in CycleIds : RefetchUsernameDone(i)
    \/ \E i \in CycleIds : UpdateFreshUsernameDone(i)
    \/ \E i \in CycleIds : DeleteTokenDone(i)

SpecCycle == InitCycle /\ [][NextCycle]_vars

----------------------------------------------------------------------------
(* Shorthands over the current state *)

Called == result # NoResult

D == now.daysInMonth

C == now.currentDay

Zone == zone(usedRequests, monthlyLimit, D, C)

PastRatio == pastRatio(usedRequests, monthlyLimit, D, C)

LensRatio == lensRatio(usedRequests, monthlyLimit, D, C)

FutureRatio == futureRatio(usedRequests, monthlyLimit, D, C)

EndsWith(s, suffix) ==
    /\ Len(s) >= Len(suffix)
    /\ SubSeq(s, Len(s) - Len(suffix) + 1, Len(s)) = suffix

----------------------------------------------------------------------------
(* Claims *)

\* C1: for every usedUnits, monthlyLimit > 0, daysInMonth >= 1 and currentDay in
\* [1, daysInMonth], the progressBar returned by calculatePacing has exactly 19
\* characters.
C1_BarHas19Characters == Called => Len(result.progressBar) = 19

\* What the code does instead: every literal of lines 237-239 is stored as three
\* code units, so the bar has 19 literals and three times as many characters.
BarHas19Literals ==
    Called => /\ Len(result.progressBar) = 19 * Len(LENS_DELIM)
              /\ Len(PAST_FILL) = 3 /\ Len(PAST_EMPTY) = 3 /\ Len(LENS_FILL) = 3
              /\ Len(LENS_EMPTY) = 3 /\ Len(LENS_DELIM) = 3

\* C2: pastChars + futureChars = 12 with 0 <= pastChars <= 12 and futureChars >= 0
\* for every day of every month, and pastChars = 0 in a single-day month.
C2_OutsideWidthSplit ==
    Called =>
        /\ pastChars(D, C) + futureChars(D, C) = 12
        /\ pastChars(D, C) >= 0 /\ pastChars(D, C) <= 12
        /\ futureChars(D, C) >= 0
        /\ (D = 1 => pastChars(D, C) = 0)
        /\ Len(pastStr(usedRequests, monthlyLimit, D, C))
             + Len(futureStr(usedRequests, monthlyLimit, D, C)) = 12 * Len(PAST_FILL)

C2_Witness == Called /\ D = 1 /\ C = 1 /\ pastChars(D, C) = 0 /\ futureChars(D, C) = 12

\* The table of the specification, in integer arithmetic: usedUnits < startOfTodayQuota
\* is usedUnits * daysInMonth < (currentDay - 1) * monthlyLimit, and so on.
TableZone ==
    IF usedRequests * D < (C - 1) * monthlyLimit THEN 1
    ELSE IF usedRequests * D <= C * monthlyLimit THEN 2
    ELSE 3

TableRatios ==
    CASE TableZone = 1 ->
             <<IF (C - 1) * monthlyLimit = 0 THEN Num(0)
               ELSE Rat(usedRequests * D, (C - 1) * monthlyLimit),
               Num(0), Num(0)>>
      [] TableZone = 2 ->
             <<Num(1), Rat(usedRequests * D - (C - 1) * monthlyLimit, monthlyLimit), Num(0)>>
      [] TableZone = 3 ->
             <<Num(1), Num(1),
               IF monthlyLimit * D - C * monthlyLimit = 0 THEN Num(1)
               ELSE Rat(usedRequests * D - C * monthlyLimit,
                        monthlyLimit * D - C * monthlyLimit)>>

\* C3: calculatePacing selects exactly the zone of the specification's table and
\* its (pastRatio, lensRatio, futureRatio) are the table's.
C3_RatiosMatchTable ==
    Called =>
        /\ Zone = TableZone
        /\ <<PastRatio, LensRatio, FutureRatio>> = TableRatios

\* Scenario B: limit 300, 30 days, day 15, 160 used.
C3_Witness ==
    /\ Called /\ monthlyLimit = 300 /\ D = 30 /\ C = 15 /\ usedRequests = 160
    /\ Zone = 3
    /\ futureQuota(monthlyLimit, D, C) = Num(150)
    /\ FutureRatio = Rat(1, 15)
    /\ result.buffer = Num(-10)

\* C4: the on-track zone is closed at both ends: usedUnits = endOfTodayQuota gives
\* the on-track branch with lensRatio 1, usedUnits = startOfTodayQuota gives the
\* on-track branch with lensRatio 0 and buffer = dailyBudget.
C4_OnTrackClosed ==
    Called =>
        /\ (usedRequests * D = C * monthlyLimit =>
                Zone = 2 /\ LensRatio = Num(1))
        /\ (usedRequests * D = (C - 1) * monthlyLimit =>
                /\ Zone = 2 /\ LensRatio = Num(0)
                /\ result.buffer = Rat(monthlyLimit, D))

C4_Witness ==
    /\ Called /\ monthlyLimit = 300 /\ D = 30 /\ C = 15 /\ usedRequests = 150
    /\ Num(usedRequests) = endOfTodayQuota(monthlyLimit, D, C)
    /\ Zone = 2 /\ LensRatio = Num(1) /\ result.buffer = Num(0)

\* C5 as stated: if usedUnits = 0 then pastRatio = 0 on every day of the month,
\* the first included.
C5_ZeroUsedZeroPastRatio == (Called /\ usedRequests = 0) => PastRatio = Num(0)

\* C5 amended: if usedUnits = 0 then pastRatio = 0 on every day after the first; on
\* the first day the on-track zone is selected and pastRatio = 1, with a past
\* block of width 0.
C5_ZeroUsedPastRatio ==
    (Called /\ usedRequests = 0) =>
        IF C = 1
        THEN /\ Zone = 2 /\ PastRatio = Num(1)
             /\ pastChars(D, C) = 0
             /\ pastStr(usedRequests, monthlyLimit, D, C) = <<>>
        ELSE Zone = 1 /\ PastRatio = Num(0)

C5_Witness ==
    /\ Called /\ usedRequests = 0 /\ C = 1 /\ D = 30
    /\ startOfTodayQuota(monthlyLimit, D, C) = Num(0)
    /\ PastRatio = Num(1)

\* C6: with monthlyLimit, daysInMonth and currentDay fixed, buffer is strictly
\* decreasing in usedUnits.
C6_BufferStrictlyDecreasing ==
    Called =>
        \A u2 \in UsedSet :
            usedRequests < u2 =>
                Less(buffer(u2, monthlyLimit, D, C), result.buffer)

C6_Witness ==
    /\ Called /\ monthlyLimit = 300 /\ D = 30 /\ C = 15 /\ usedRequests = 140
    /\ result.buffer = Num(10)
    /\ buffer(160, monthlyLimit, D, C) = Num(-10)

\* C7: buffer < 0 exactly when the overspend zone is selected, buffer >= 0 exactly
\* in the other two zones, and the 'Over budget' tooltip and the error colour are
\* shown exactly for overspend.
C7_BufferSignIsZone ==
    Called =>
        /\ Less(result.buffer, Num(0)) <=> Zone = 3
        /\ Leq(Num(0), result.buffer) <=> Zone \in {1, 2}
        /\ statusBarItem.tooltip.kind = "Over budget" <=> Zone = 3
        /\ statusBarItem.tooltip.kind = "On track" <=> Zone \in {1, 2}
        /\ statusBarItem.color = "statusBarItem.errorForeground" <=> Zone = 3
        /\ statusBarItem.color = "undefined" <=> Zone \in {1, 2}

C7_Witness ==
    /\ Called /\ monthlyLimit = 300 /\ D = 30 /\ C = 15 /\ usedRequests = 310
    /\ Zone = 3
    /\ statusBarItem.tooltip = [kind |-> "Over budget", amount |-> 160]
    /\ statusBarItem.color = "statusBarItem.errorForeground"

\* C8: two calls of calculatePacing with identical inputs yield identical
\* progressBar and buffer, whatever happens between the calls.
C8_SameInputsSameOutput ==
    [][(Called /\ result' # NoResult) =>
          /\ result'.progressBar = result.progressBar
          /\ result'.buffer = result.buffer]_vars

\* The spec's count: round(clamp(ratio, 0, 1) * width).
SpecFilledCount ==
    MathRound(Mul(MathMax(Num(0), MathMin(Num(1), fillRatio)), Num(width)))

\* C9: for every width > 0 and every ratio, renderBlock returns exactly
\* round(clamp(ratio, 0, 1) * width) fill characters followed by the remaining
\* empty characters, width in total.
C9_RenderBlockCount ==
    (block # NoBlock /\ width > 0) =>
        /\ SpecFilledCount >= 0 /\ SpecFilledCount <= width
        /\ block.text = repeat(block.fillChar, SpecFilledCount)
                        \o repeat(block.emptyChar, width - SpecFilledCount)
        /\ Len(block.text) = width * Len(block.fillChar)

C9_Witness ==
    /\ block # NoBlock /\ width = 5 /\ fillRatio = Rat(3, 2)
    /\ block.fillChar = <<9648>>
    /\ block.text = <<9648, 9648, 9648, 9648, 9648>>

\* C10: on the last day of a month of at least two days, pastChars = 12 and
\* futureChars = 0, renderBlock with width 0 returns the empty string for any
\* ratio, and the bar still has 19 characters and ends with the closing lens
\* delimiter.
C10_LastDay ==
    (Called /\ D >= 2 /\ C = D) =>
        /\ pastChars(D, C) = 12
        /\ futureChars(D, C) = 0
        /\ \A r \in RatioSet : renderBlock(0, r, PAST_FILL, PAST_EMPTY) = <<>>
        /\ futureStr(usedRequests, monthlyLimit, D, C) = <<>>
        /\ EndsWith(result.progressBar, LENS_DELIM)
        /\ Len(result.progressBar) = 19

\* What holds of C10 on the code: everything but the count of characters.
C10_LastDayLayout ==
    (Called /\ D >= 2 /\ C = D) =>
        /\ pastChars(D, C) = 12
        /\ futureChars(D, C) = 0
        /\ \A r \in RatioSet : renderBlock(0, r, PAST_FILL, PAST_EMPTY) = <<>>
        /\ futureStr(usedRequests, monthlyLimit, D, C) = <<>>
        /\ EndsWith(result.progressBar, LENS_DELIM)

----------------------------------------------------------------------------
(* The cells of a bar: one literal of lines 237-239 each *)

CellLen == Len(LENS_DELIM)

Cells(bar) ==
    [i \in 1 .. (Len(bar) \div CellLen) |->
        SubSeq(bar, CellLen * (i - 1) + 1, CellLen * i)]

IsDelim(cell) == cell = LENS_DELIM

IsFilled(cell) == cell \in {PAST_FILL, LENS_FILL}

NonDelimCells(bar) == SelectSeq(Cells(bar), LAMBDA cell : ~IsDelim(cell))

FilledIn(bar) == Len(SelectSeq(Cells(bar), IsFilled))

\* The number of cells renderBlock fills in the three blocks of one bar.
filledCells(used, limit, daysInMonth, currentDay) ==
    (IF pastChars(daysInMonth, currentDay) <= 0 THEN 0
     ELSE filled(pastChars(daysInMonth, currentDay),
                 pastRatio(used, limit, daysInMonth, currentDay)))
    + filled(LENS_INNER_WIDTH, lensRatio(used, limit, daysInMonth, currentDay))
    + (IF futureChars(daysInMonth, currentDay) <= 0 THEN 0
       ELSE filled(futureChars(daysInMonth, currentDay),
                   futureRatio(used, limit, daysInMonth, currentDay)))

\* The next larger usage of UsedSet (none after the largest): a count that never
\* drops from one usage to the next never drops between any two.
NextUsed(used) ==
    {u2 \in UsedSet : used < u2 /\ \A u3 \in UsedSet : used < u3 => u2 <= u3}

\* C11: on the first day of the month startOfTodayQuota is 0 and pastChars is 0;
\* with usedUnits >= 0 the ahead-of-schedule zone is never selected, and the
\* zone-1 branch is reached only with negative usedUnits, where pastRatio is 0.
C11_FirstDay ==
    (Called /\ C = 1) =>
        /\ pastDays(C) = 0
        /\ startOfTodayQuota(monthlyLimit, D, C) = Num(0)
        /\ pastChars(D, C) = 0
        /\ (usedRequests >= 0 => Zone \in {2, 3})
        /\ (Zone = 1 => usedRequests < 0 /\ PastRatio = Num(0))
        /\ (usedRequests < 0 => Zone = 1)

C11_Witness ==
    /\ Called /\ C = 1 /\ D = 30 /\ usedRequests = -1 /\ monthlyLimit = 300
    /\ Zone = 1 /\ PastRatio = Num(0)

\* C18: with usedUnits >= 0 and monthlyLimit > 0 the filled cells form a prefix of
\* the 17 non-delimiter cells of the bar: no cell is filled after an empty one,
\* across the past block, the lens and the future block.
C18_FilledCellsArePrefix ==
    (Called /\ usedRequests >= 0 /\ monthlyLimit > 0) =>
        LET cells == NonDelimCells(result.progressBar)
        IN  /\ Len(cells) = 17
            /\ \A j \in 2 .. Len(cells) :
                   IsFilled(cells[j]) => IsFilled(cells[j - 1])

C18_Witness ==
    /\ Called /\ monthlyLimit = 8 /\ D = 4 /\ C = 2 /\ usedRequests = 3
    /\ pastChars(D, C) = 4
    /\ LensRatio = Rat(1, 2)
    /\ FilledIn(result.progressBar) = 7

----------------------------------------------------------------------------
(* Claims about the refresh cycle, checked under SpecCycle *)

InFlight(c) == c.pc \notin {"idle", "done"}
Quiet == \A i \in CycleIds : ~InFlight(cycles[i])
SomeDone == \E i \in CycleIds : cycles[i].pc = "done"
LimitIsUsable(v) == v.kind = "number" /\ v.value > 0
LimitIsMissing(v) == v.kind = "undefined"

\* C12 as stated: the engine is only called with monthlyLimit > 0, and a
\* configured limit that is missing, non-finite, zero or negative has been
\* replaced by 300 and 300 has been written back to the configuration by the
\* time a cycle calls the engine.
C12_LimitReplacedAndWrittenBack ==
    /\ Called => monthlyLimit > 0
    /\ \A i \in CycleIds :
          cycles[i].outcome = "shown" =>
              /\ cycles[i].monthlyLimit > 0
              /\ ~LimitIsUsable(cycles[i].limitRead) =>
                    /\ cycles[i].monthlyLimit = DEFAULT_MONTHLY_LIMIT
                    /\ config.monthlyLimit = NumberValue(DEFAULT_MONTHLY_LIMIT)

\* C12 amended: the engine is only called with monthlyLimit > 0; a usable
\* limit is passed on as configured; a missing, non-finite, zero or negative
\* one is replaced by 300; 300 is written back when the value is present but
\* non-finite, zero or negative, and a missing value is left unwritten.
C12_LimitReplacedWrittenBackUnlessMissing ==
    /\ Called => monthlyLimit > 0
    /\ \A i \in CycleIds :
          cycles[i].outcome = "shown" =>
              LET read == cycles[i].limitRead
              IN  /\ cycles[i].monthlyLimit > 0
                  /\ LimitIsUsable(read) =>
                        /\ cycles[i].monthlyLimit = read.value
                        /\ config.monthlyLimit = read
                  /\ ~LimitIsUsable(read) =>
                        cycles[i].monthlyLimit = DEFAULT_MONTHLY_LIMIT
                  /\ (~LimitIsUsable(read) /\ ~LimitIsMissing(read)) =>
                        config.monthlyLimit = NumberValue(DEFAULT_MONTHLY_LIMIT)
                  /\ LimitIsMissing(read) => config.monthlyLimit = read

C12_Witness ==
    /\ Called
    /\ monthlyLimit = DEFAULT_MONTHLY_LIMIT
    /\ cycles[1].outcome = "shown"
    /\ LimitIsMissing(cycles[1].limitRead)
    /\ LimitIsMissing(config.monthlyLimit)
    /\ cycles[2].outcome = "shown"

ErrorText == Msg("$(error) Pacer: Error")

\* C13: in one cycle a 404 on the first usage request clears the cached
\* username, the username is re-resolved and the usage requested once more;
\* a cycle requests the usage at most twice and re-resolves at most once;
\* a 404 on the second request ends the cycle in the error state.
C13_RetryOnce ==
    [][\A i \in CycleIds :
          LET c == cycles[i]
              d == cycles'[i]
          IN  /\ d.usageFetches <= 2
              /\ d.reresolves <= 1
              /\ d.usageFetches = 2 => d.reresolves = 1
              /\ (c.pc = "fetchUsage" /\ d.pc # "fetchUsage" /\ d.last = "404") =>
                    IF c.usageFetches = 1
                    THEN d.pc = "clearUsername"
                    ELSE /\ d.pc = "done"
                         /\ d.outcome = "error"
                         /\ statusBarItem'.text = ErrorText
                         /\ d.usageFetches = 2
              /\ (c.pc = "clearUsername" /\ d.pc # "clearUsername") =>
                    /\ config'.username = ""
                    /\ d.pc = "refetchUsername"
                    /\ d.reresolves = 1
              /\ (c.pc = "refetchUsername" /\ d.pc = "updateFreshUsername") =>
                    d.last = "200"
              /\ (c.pc = "updateFreshUsername" /\ d.pc # "updateFreshUsername") =>
                    /\ config'.username = d.username
                    /\ d.pc = "fetchUsage"
                    /\ d.usageFetches = 2
       ]_vars

C13_Witness ==
    /\ cycles[1].pc = "done"
    /\ cycles[1].outcome = "error"
    /\ cycles[1].last = "404"
    /\ cycles[1].usageFetches = 2
    /\ cycles[1].reresolves = 1
    /\ statusBarItem.text = ErrorText

TokenExpiredPrompt ==
    [text    |-> Msg("$(key) Pacer: Token expired"),
     tooltip |-> [kind   |-> "Your GitHub token is invalid or revoked. Click to set a new one.",
                  amount |-> 0],
     color   |-> "undefined"]

\* C14: a cycle one of whose requests answered 401 ends with the token
\* deleted, the status bar showing the "Token expired" prompt and the command
\* copilot-pacer.setToken; the token is deleted by no other step of a cycle.
C14_ExpiredTokenDeleted ==
    [][/\ \A i \in CycleIds :
             LET c == cycles[i]
                 d == cycles'[i]
             IN  /\ d.last = "401" =>
                       \/ d.pc = "deleteToken"
                       \/ d.pc = "done" /\ d.outcome = "expired"
                 /\ (c.pc = "deleteToken" /\ d.pc # "deleteToken") =>
                       /\ d.pc = "done"
                       /\ d.last = "401"
                       /\ secretToken' = NoToken
                       /\ statusBarItem' = TokenExpiredPrompt
                       /\ command' = CMD_SET_TOKEN
                 /\ d.outcome = "expired" => d.last = "401"
       /\ (secretToken # NoToken /\ secretToken' = NoToken) =>
             \E i \in CycleIds :
                 /\ cycles[i].pc = "deleteToken"
                 /\ cycles'[i].outcome = "expired"
      ]_vars

C14_Witness ==
    /\ cycles[1].pc = "done"
    /\ cycles[1].outcome = "expired"
    /\ cycles[1].last = "401"
    /\ cycles[1].reresolves = 1
    /\ secretToken = NoToken
    /\ statusBarItem = TokenExpiredPrompt
    /\ command = CMD_SET_TOKEN

\* C15: whenever no cycle is in flight and at least one has completed, the
\* command of the status bar item is copilot-pacer.setToken if no token is
\* stored and copilot-pacer.refresh if one is.
C15_CommandMatchesToken ==
    (Quiet /\ SomeDone) =>
        command = IF secretToken = NoToken THEN CMD_SET_TOKEN ELSE CMD_REFRESH

\* C16: a cycle handling a 401 removes from SecretStorage only the token it
\* read at its start; a token stored since then stays.
C16_DeletesOnlyOwnToken ==
    [][\A i \in CycleIds :
          (cycles[i].pc = "deleteToken" /\ cycles'[i].pc = "done"
               /\ secretToken # cycles[i].token) =>
              secretToken' = secretToken
      ]_vars

LastStarted == CHOOSE i \in CycleIds :
                   /\ cycles[i].pc # "idle"
                   /\ \A j \in CycleIds : cycles[j].pc # "idle" => j <= i

\* C17: once all cycles have finished, the text, tooltip and colour of the
\* status bar are those written by the cycle that started last.
C17_LastStartedWins ==
    (Quiet /\ SomeDone) => statusBarItem = cycles[LastStarted].wrote

====
